---- MODULE Spec2Model ----
(***************************************************************************)
(* Model of the knowledge-base facade: the FastAPI route handlers of       *)
(* server/routes/knowledge_base.py, the DifyDocument client of             *)
(* server/utils/dify_document.py, the DocumentImportConfig serializer of   *)
(* server/schemas/document.py and the in-process store of                  *)
(* server/utils/document_processor.py.                                     *)
(*                                                                         *)
(* Every invocation (an HTTP request handled by a route, or a direct call  *)
(* of a DifyDocument method) occupies a slot.  A slot records the call,    *)
(* the outbound requests it sent, the responses it received and its        *)
(* outcome.  An async method suspends once, at its single awaited HTTP     *)
(* call: the part before the await is one action, the part after it        *)
(* (run when the remote peer answers) is another.                          *)
(***************************************************************************)
EXTENDS Integers, Sequences, FiniteSets, TLC

VARIABLES
    settings,       \* get_settings(): DIFY_DATASET_APIKEY, JINA_TOKEN (read-only)
    documents_db,   \* document_processor.documents_db: keys of the mock store
    remote,         \* documents that exist at the provider (environment)
    pc,             \* per slot: "idle" | "await" | "done"
    call,           \* per slot: the operation and its arguments
    sent,           \* per slot: outbound requests issued, in order
    recv,           \* per slot: responses received, in order
    flows,          \* per slot: the import flows the route entered, in order
    result,         \* per slot: what the invocation returned or raised
    deleted         \* documents a DELETE of this system removed (history)

vars ==
    <<settings, documents_db, remote, pc, call, sent, recv, flows, result,
      deleted>>

----------------------------------------------------------------------------
(* Bounds and input alphabets *)

\* Longest questions / answers list tried.
MaxQA == 2

Slots == {1, 2}

None == "None"

Keys == {"", "key"}
DocIds == {"doc1"}

\* Statuses the remote peers answer with.
Statuses == {200, 201, 204, 400, 404, 500}

\* Shapes of a response body: the endpoint's well-formed success JSON, a JSON
\* object with a "message" field, a JSON object without one, non-JSON text.
BodyKinds == {"valid", "json_message", "json_other", "text"}

Text(b) == "text:" \o b
Message(b) == "message:" \o b

----------------------------------------------------------------------------
(* Form fields of the import endpoint: Optional[str] carrying JSON *)

FormAbsent == [raw |-> "none", items |-> <<>>]
FormEmpty == [raw |-> "empty", items |-> <<>>]
FormBadJson == [raw |-> "badjson", items |-> <<>>]
FormObject == [raw |-> "object", items |-> <<>>]
FormArray(s) == [raw |-> "array", items |-> s]

Lists(alphabet) == UNION {[1..n -> alphabet] : n \in 0..MaxQA}

FormFields(alphabet) ==
    {FormAbsent, FormEmpty, FormBadJson, FormObject}
        \cup {FormArray(s) : s \in Lists(alphabet)}

\* Python truthiness of an Optional[str]: None and "" are falsy.
Falsy(f) == f.raw \in {"none", "empty"}

\* json.loads: JSONDecodeError on text that is not JSON.
JsonDecodes(f) == f.raw \in {"object", "array"}
IsList(f) == f.raw = "array"

----------------------------------------------------------------------------
(* Outcomes *)

Return(what) == [tag |-> "return", exc |-> None, status |-> 200, detail |-> what]
Raise(exc, status, detail) ==
    [tag |-> "raise", exc |-> exc, status |-> status, detail |-> detail]
NoResult == [tag |-> "none", exc |-> None, status |-> 0, detail |-> None]

HTTPException(status, detail) == Raise("HTTPException", status, detail)
ValueError(detail) == Raise("ValueError", 0, detail)
NameError(name) == Raise("NameError", 0, name)

PydanticValidationError(detail) == Raise("ValidationError", 0, detail)
JSONDecodeError(detail) == Raise("JSONDecodeError", 0, detail)
HTTPStatusError(status, detail) == Raise("HTTPStatusError", status, detail)

IsFailure(r) == r.tag = "raise"

----------------------------------------------------------------------------
(* Calls *)

NoArgs ==
    [op |-> None, dataset_id |-> None, ctor_dataset_id |-> None,
     document_id |-> None, import_type |-> None, title |-> "t",
     metadata |-> "json", url |-> None, file |-> None,
     questions |-> FormAbsent, answers |-> FormAbsent,
     text |-> None, doc_form |-> None, import_mode |-> None,
     file_path |-> None, file_content |-> None, file_name |-> None,
     content_type |-> None,
     page |-> 1, limit |-> 20, keyword |-> None]

ClientOps ==
    {"create_from_web", "create_from_text", "create_from_file", "get_document",
     "list_documents", "delete_document", "update_document_metadata"}

----------------------------------------------------------------------------
(* server/routes/knowledge_base.py: create_document_in_kb *)

\* Names bound in the module's namespace: its imports, router and endpoints.
ModuleGlobals ==
    {"APIRouter", "HTTPException", "UploadFile", "File", "Form", "Depends",
     "Query", "Body", "List", "Optional", "Dict", "Any", "Document",
     "DocumentCreate", "WebDocumentCreate", "FileDocumentCreate",
     "QADocumentCreate", "DocumentUpdate", "process_web_document",
     "process_file_document", "process_qa_document", "get_documents",
     "update_document", "uuid", "datetime", "json", "httpx", "get_settings",
     "os", "DifyDocument", "DifyDocumentResponse", "router",
     "create_document_in_kb", "delete_document_endpoint",
     "get_documents_from_knowledgebase", "update_document_metadata_endpoint"}

\* Calling a global: a name the module never binds raises NameError.
CallGlobal(name) ==
    IF name \in ModuleGlobals THEN Return(name) ELSE NameError(name)

\* Fields a QADocumentCreate must be given (those without a default).
QADocumentCreateRequired == {"title", "content", "questions", "answers"}

\* QADocumentCreate(**given): pydantic rejects a missing required field.
QADocumentCreate(given) ==
    IF QADocumentCreateRequired \subseteq given
        THEN Return("QADocumentCreate")
        ELSE PydanticValidationError("field required")

\* document_processor.process_qa_document: one "Q: ..\nA: .." block per
\* zipped pair, joined by a blank line.
QABlock(q, a) == "Q: " \o q \o "\nA: " \o a

RECURSIVE process_qa_document(_, _)
process_qa_document(questions, answers) ==
    IF questions = <<>> \/ answers = <<>> THEN ""
    ELSE IF Len(questions) = 1 \/ Len(answers) = 1
        THEN QABlock(Head(questions), Head(answers))
    ELSE QABlock(Head(questions), Head(answers)) \o "\n\n"
            \o process_qa_document(Tail(questions), Tail(answers))

\* Lines 72-84: parse and compare the two lists; None when they pass.
ParseQA(questions, answers) ==
    IF ~JsonDecodes(questions) \/ ~JsonDecodes(answers)
        THEN HTTPException(400, "Invalid JSON format for questions or answers")
    ELSE IF ~IsList(questions) \/ ~IsList(answers)
        THEN HTTPException(400, "Questions and answers must be JSON arrays")
    ELSE IF Len(questions.items) # Len(answers.items)
        THEN HTTPException(400, "Questions and answers must have the same length")
    ELSE NoResult

\* Lines 44-46, 56-58, 68-93, 101-102: what the try block raises before it
\* reaches a flow; NoResult when it reaches one.
ImportValidate(c) ==
    IF c.import_type = "web" THEN
        IF c.url \in {None, ""}
            THEN HTTPException(400, "URL is required for web imports")
            ELSE NoResult
    ELSE IF c.import_type = "file" THEN
        IF c.file = None
            THEN HTTPException(400, "File is required for file imports")
            ELSE NoResult
    ELSE IF c.import_type = "qa" THEN
        IF Falsy(c.questions) \/ Falsy(c.answers)
            THEN HTTPException(400, "Questions and answers are required for Q&A imports")
        ELSE IF ParseQA(c.questions, c.answers) # NoResult
            THEN ParseQA(c.questions, c.answers)
        ELSE IF c.metadata = "badjson"
            THEN JSONDecodeError("metadata")
        ELSE IF IsFailure(QADocumentCreate(
                    {"title", "questions", "answers", "source_type", "metadata"}))
            THEN QADocumentCreate(
                    {"title", "questions", "answers", "source_type", "metadata"})
        ELSE NoResult
    ELSE HTTPException(400, "Invalid import type")

\* Lines 49, 61, 96: the flow each branch calls.
ImportFlow(c) == "create_document_from_" \o c.import_type

\* Lines 43-102: the body of the try block.
ImportBody(c) ==
    IF IsFailure(ImportValidate(c))
        THEN ImportValidate(c)
        ELSE CallGlobal(ImportFlow(c))

\* The flows the body entered: the one it called, when the call resolved.
ImportFlows(c) ==
    IF IsFailure(ImportBody(c)) THEN <<>> ELSE <<c.import_type>>

\* Lines 104-107: HTTPStatusError keeps its status; every other exception,
\* the HTTPException raised inside the try block included, becomes a 500.
ImportExcept(e) ==
    IF ~IsFailure(e) THEN e
    ELSE IF e.exc = "HTTPStatusError"
        THEN HTTPException(e.status, e.detail)
        ELSE HTTPException(500, e.detail)

ImportCalls ==
    {[NoArgs EXCEPT !.op = "create_document_in_kb", !.dataset_id = "ds1",
                    !.import_type = "web", !.url = u] : u \in {None, "", "u"}}
    \cup
    {[NoArgs EXCEPT !.op = "create_document_in_kb", !.dataset_id = "ds1",
                    !.import_type = "file", !.file = f] : f \in {None, "f.pdf"}}
    \cup
    {[NoArgs EXCEPT !.op = "create_document_in_kb", !.dataset_id = "ds1",
                    !.import_type = "qa", !.questions = q, !.answers = a,
                    !.metadata = m] :
        q \in FormFields({"q"}), a \in FormFields({"a"}), m \in {"json", "badjson"}}
    \cup
    {[NoArgs EXCEPT !.op = "create_document_in_kb", !.dataset_id = "ds1",
                    !.import_type = "csv"]}

Free(p) == pc[p] \in {"idle", "done"}

Finish(p, c, reqs, resps, r) ==
    /\ flows' = [flows EXCEPT ![p] =
                    IF c.op = "create_document_in_kb" THEN ImportFlows(c) ELSE <<>>]
    /\ pc' = [pc EXCEPT ![p] = "done"]
    /\ call' = [call EXCEPT ![p] = c]
    /\ sent' = [sent EXCEPT ![p] = reqs]
    /\ recv' = [recv EXCEPT ![p] = resps]
    /\ result' = [result EXCEPT ![p] = r]

create_document_in_kb(p) ==
    /\ Free(p)
    /\ \E c \in ImportCalls :
        Finish(p, c, <<>>, <<>>, ImportExcept(ImportBody(c)))
    /\ UNCHANGED <<settings, documents_db, remote, deleted>>

----------------------------------------------------------------------------
(* server/schemas/document.py: DocumentImportConfig *)

IndexingTechnique == {"high_quality", "economy"}
DocumentForm == {"text_model", "hierarchical_model", "qa_model"}
ProcessMode == {"automatic", "custom"}

RequiredConfigFields == {"name", "text"}
OptionalConfigFields ==
    {"doc_form", "doc_language", "retrieval_model", "embedding_model",
     "embedding_model_provider"}
ConfigFields ==
    RequiredConfigFields \cup {"indexing_technique", "process_rule"}
        \cup OptionalConfigFields

\* The declared default of each field that has one.  process_rule is the
\* nested ProcessRule, held here by its one field, mode.
ConfigDefault(k) ==
    IF k = "indexing_technique" THEN "high_quality"
    ELSE IF k = "process_rule" THEN "automatic"
    ELSE None

\* DocumentImportConfig(**config_data): every declared field, the given value
\* or the default.
DocumentImportConfig(config_data) ==
    [k \in ConfigFields |->
        IF k \in DOMAIN config_data THEN config_data[k] ELSE ConfigDefault(k)]

\* pydantic's validation of the enum-typed and required fields.
ConfigValid(config_data) ==
    /\ RequiredConfigFields \subseteq DOMAIN config_data
    /\ \A k \in RequiredConfigFields : config_data[k] # None
    /\ DocumentImportConfig(config_data).indexing_technique \in IndexingTechnique
    /\ DocumentImportConfig(config_data).process_rule \in ProcessMode
    /\ DocumentImportConfig(config_data).doc_form \in DocumentForm \cup {None}

\* A dict() that forgets to drop the None values.
DictKeepingNone(config) == config

\* DocumentImportConfig.dict(): the fields whose value is not None.
DocumentImportConfigDict(config) ==
    [k \in {f \in DOMAIN config : config[f] # None} |-> config[k]]

----------------------------------------------------------------------------
(* server/utils/dify_document.py: DifyDocument *)

NoJson == [k \in {} |-> None]

\* An outbound HTTP request: the peer, the method and URL parts, the bearer
\* credential, the timeout in seconds (0: none given), and what it carries.
Request(to, method, endpoint, dataset, document, auth, timeout, json) ==
    [to |-> to, method |-> method, endpoint |-> endpoint, dataset |-> dataset,
     document |-> document, auth |-> auth, timeout |-> timeout, json |-> json,
     data |-> NoJson, page |-> 0, limit |-> 0, keyword |-> None,
     file_name |-> None, content_type |-> None]

\* An __init__ that accepts an empty API key.
DifyInitUnchecked(st) == NoResult

\* __init__: the API key is read from the settings and must not be empty.
DifyInit(st) ==
    IF st.DIFY_DATASET_APIKEY = ""
        THEN ValueError("Dify API key not configured")
        ELSE NoResult

\* _get_headers: the bearer credential of every provider request.
GetHeaders(st) == st.DIFY_DATASET_APIKEY

\* A client that prefers the constructor's dataset to the call's.
ResolveDatasetCtorFirst(c) ==
    IF c.ctor_dataset_id \notin {None, ""} THEN c.ctor_dataset_id ELSE c.dataset_id

\* dataset_id = dataset_id or self.dataset_id
ResolveDataset(c) ==
    IF c.dataset_id \notin {None, ""} THEN c.dataset_id ELSE c.ctor_dataset_id

DatasetCheck(c) ==
    IF ResolveDataset(c) \in {None, ""}
        THEN ValueError("Dataset ID is required")
        ELSE NoResult

\* create_from_text, lines 260-278: the config_data built from the arguments.
ImportMode(c) == IF c.import_mode \in {None, ""} THEN "default" ELSE c.import_mode
DocForm(c) == IF c.doc_form \in {None, ""} THEN "text_model" ELSE c.doc_form

ConfigData(c) ==
    [k \in {"name", "text", "indexing_technique", "process_rule", "doc_form"} |->
        IF k = "name" THEN c.title
        ELSE IF k = "text" THEN c.text
        ELSE IF k = "indexing_technique" THEN "high_quality"
        ELSE IF k = "process_rule" THEN "automatic"
        ELSE DocForm(c)]

\* create_from_text up to its await: a failure, or NoResult when the POST goes out.
CreateFromTextCheck(c) ==
    IF IsFailure(DatasetCheck(c)) THEN DatasetCheck(c)
    ELSE IF ImportMode(c) # "default" THEN ValueError("Invalid import mode")
    ELSE IF ~ConfigValid(ConfigData(c)) THEN PydanticValidationError("doc_form")
    ELSE NoResult

CreateFromTextRequest(c, st) ==
    Request("dify", "POST", "create-by-text", ResolveDataset(c), None,
            GetHeaders(st), 60,
            DocumentImportConfigDict(DocumentImportConfig(ConfigData(c))))

\* create_from_file, lines 136-158.
ExistingPaths == {"/data/a.pdf", "/data/notes"}

Basename(path) ==
    IF path = "/data/a.pdf" THEN "a.pdf"
    ELSE IF path = "/data/notes" THEN "notes"
    ELSE IF path = "/data/gone.txt" THEN "gone.txt"
    ELSE path

\* os.path.splitext(file_name)[1].lower()
LowerExt(name) ==
    IF name \in {"a.pdf", "B.PDF"} THEN ".pdf"
    ELSE IF name \in {"b.txt", "gone.txt"} THEN ".txt"
    ELSE IF name = "c.docx" THEN ".docx"
    ELSE IF name = "d.doc" THEN ".doc"
    ELSE IF name = "e.bin" THEN ".bin"
    ELSE ""

InferContentType(name) ==
    IF LowerExt(name) = ".pdf" THEN "application/pdf"
    ELSE IF LowerExt(name) = ".txt" THEN "text/plain"
    ELSE IF LowerExt(name) = ".docx"
        THEN "application/vnd.openxmlformats-officedocument.wordprocessingml.document"
    ELSE IF LowerExt(name) = ".doc" THEN "application/msword"
    ELSE "application/octet-stream"

PathRead(c) == c.file_path \notin {None, ""} /\ c.file_path \in ExistingPaths

FileName(c) ==
    IF PathRead(c) /\ c.file_name \in {None, ""}
        THEN Basename(c.file_path)
        ELSE c.file_name

ContentType(c) ==
    IF PathRead(c) /\ c.content_type \in {None, ""}
        THEN InferContentType(FileName(c))
    ELSE IF c.content_type \in {None, ""} THEN "application/octet-stream"
    ELSE c.content_type

\* Lines 161-171: metadata is sent as a JSON string; anything that is not a
\* dict or a valid JSON string becomes "{}".
FileMetadataStr(metadata) ==
    IF metadata = "dict" THEN "dumps(dict)"
    ELSE IF metadata = "json" THEN "json"
    ELSE "{}"

CreateFromFileCheck(c) ==
    IF IsFailure(DatasetCheck(c)) THEN DatasetCheck(c)
    ELSE IF ~PathRead(c) /\ c.file_content \in {None, ""}
        THEN ValueError("Either file_path or file_content must be provided")
    ELSE IF FileName(c) \in {None, ""}
        THEN ValueError("file_name is required when using file_content")
    ELSE NoResult

FormData(c) ==
    [k \in (IF c.title \in {None, ""} THEN {} ELSE {"title"}) \cup {"metadata"} |->
        IF k = "title" THEN c.title ELSE FileMetadataStr(c.metadata)]

CreateFromFileRequest(c, st) ==
    [Request("dify", "POST", "create-by-file", ResolveDataset(c), None,
             GetHeaders(st), 60, NoJson)
        EXCEPT !.data = FormData(c), !.file_name = FileName(c),
               !.content_type = ContentType(c)]

\* get_document, lines 319-328.
GetDocumentRequest(c, st) ==
    Request("dify", "GET", "documents/{id}", ResolveDataset(c), c.document_id,
            GetHeaders(st), 30, NoJson)

\* list_documents, lines 361-380.
ListDocumentsRequest(c, st) ==
    [Request("dify", "GET", "documents", ResolveDataset(c), None,
             GetHeaders(st), 30, NoJson)
        EXCEPT !.page = c.page, !.limit = c.limit,
               !.keyword = IF c.keyword \in {None, ""} THEN None ELSE c.keyword]

\* delete_document, lines 409-419.
DeleteDocumentRequest(c, st) ==
    Request("dify", "DELETE", "documents/{id}", ResolveDataset(c), c.document_id,
            GetHeaders(st), 30, NoJson)

\* update_document_metadata, lines 452-481.
UpdateMetadataCheck(c) ==
    IF IsFailure(DatasetCheck(c)) THEN DatasetCheck(c)
    ELSE IF c.metadata = "badjson" THEN ValueError("Invalid metadata JSON string")
    ELSE IF c.metadata \notin {"dict", "json"}
        THEN ValueError("metadata must be a dict or a JSON string")
    ELSE NoResult

UpdateMetadataStr(metadata) ==
    IF metadata = "dict" THEN "dumps(dict)" ELSE "json"

UpdateMetadataRequest(c, st) ==
    Request("dify", "PATCH", "documents/{id}", ResolveDataset(c), c.document_id,
            GetHeaders(st), 30,
            [k \in {"metadata"} |-> UpdateMetadataStr(c.metadata)])

\* What a method does before it awaits its HTTP call: the failure it raises,
\* or NoResult when the request goes out.
ClientCheck(c) ==
    IF c.op = "create_from_text" THEN CreateFromTextCheck(c)
    ELSE IF c.op = "create_from_file" THEN CreateFromFileCheck(c)
    ELSE IF c.op = "update_document_metadata" THEN UpdateMetadataCheck(c)
    ELSE DatasetCheck(c)

ClientRequest(c, st) ==
    IF c.op = "create_from_text" THEN CreateFromTextRequest(c, st)
    ELSE IF c.op = "create_from_file" THEN CreateFromFileRequest(c, st)
    ELSE IF c.op = "get_document" THEN GetDocumentRequest(c, st)
    ELSE IF c.op = "list_documents" THEN ListDocumentsRequest(c, st)
    ELSE IF c.op = "delete_document" THEN DeleteDocumentRequest(c, st)
    ELSE UpdateMetadataRequest(c, st)

\* Lines 292-306 and their copies in every method: any status other than 200
\* raises HTTPStatusError, its text the body's "message" field when the body
\* is JSON that has one, else the raw body text.
ErrorDetail(body) ==
    IF body = "json_message" THEN Message(body) ELSE Text(body)

\* DifyDocumentResponse(**response.json()): the body must be JSON and hold
\* a "document".
ParseDocument(body) ==
    IF body = "valid" THEN Return("DifyDocumentResponse")
    ELSE IF body = "text" THEN JSONDecodeError("response")
    ELSE PydanticValidationError("document")

\* A delete_document that answers False instead of raising.
ClientOutcomeSoftDelete(op, status, body) ==
    IF op = "delete_document"
        THEN (IF status # 200 THEN Return("False") ELSE Return("True"))
    ELSE IF status # 200 THEN HTTPStatusError(status, ErrorDetail(body))
    ELSE IF op = "list_documents" THEN
        (IF body = "text" THEN JSONDecodeError("response") ELSE Return(body))
    ELSE ParseDocument(body)

\* What a method does with the response it awaited.
ClientOutcome(op, status, body) ==
    IF status # 200 THEN HTTPStatusError(status, ErrorDetail(body))
    ELSE IF op = "delete_document" THEN Return("True")
    ELSE IF op = "list_documents" THEN
        (IF body = "text" THEN JSONDecodeError("response") ELSE Return(body))
    ELSE ParseDocument(body)

\* jina_crawler, lines 88-105: the fetch is a blocking requests.get without a
\* timeout; a status other than 200 raises ValueError naming the status.
JinaRequest(c, st) ==
    Request("jina", "GET", c.url, None, None, st.JINA_TOKEN, 0, NoJson)

JinaTokenCheck(st) ==
    IF st.JINA_TOKEN = ""
        THEN ValueError("JINA_TOKEN not configured in environment variables")
        ELSE NoResult

\* A crawler that never looks at the status.
JinaOutcomeAnyStatus(status, body) == Return(Text(body))

JinaOutcome(status, body) ==
    IF status # 200
        THEN Raise("ValueError", status, "Failed to crawl URL")
        ELSE Return(Text(body))

\* create_from_web, lines 230-238: create_from_text(...) is called without
\* await, so the coroutine object is returned and its body never runs.
CreateFromWebReturn(crawled) ==
    IF IsFailure(crawled) THEN crawled ELSE Return("coroutine create_from_text")

----------------------------------------------------------------------------
(* server/routes/knowledge_base.py: the delete, list and update endpoints *)

\* The DifyDocument call a route makes.
Inner(c) ==
    IF c.op = "delete_document_endpoint"
        THEN [c EXCEPT !.op = "delete_document", !.ctor_dataset_id = c.dataset_id,
                       !.dataset_id = None]
    ELSE IF c.op = "get_documents_from_knowledgebase"
        THEN [c EXCEPT !.op = "list_documents", !.ctor_dataset_id = c.dataset_id,
                       !.dataset_id = None]
    ELSE c

\* delete_document_endpoint, lines 119-126: a true result is the success body;
\* HTTPException passes through; any other exception becomes a 500.
DeleteExcept(r) ==
    IF ~IsFailure(r) THEN
        (IF r.detail = "True"
            THEN Return("success")
            ELSE HTTPException(404, "Document not found"))
    ELSE IF r.exc = "HTTPException" THEN r
    ELSE HTTPException(500, r.detail)

\* get_documents_from_knowledgebase, lines 141-143: res['data'], and every
\* exception becomes a 500.
ListExcept(r) ==
    IF ~IsFailure(r) THEN
        (IF r.detail = "valid" THEN Return("data") ELSE HTTPException(500, "'data'"))
    ELSE HTTPException(500, r.detail)

\* What the caller of the invocation gets from the client's outcome.
RouteExcept(c, r) ==
    IF c.op = "delete_document_endpoint" THEN DeleteExcept(r)
    ELSE IF c.op = "get_documents_from_knowledgebase" THEN ListExcept(r)
    ELSE r

\* document_processor.update_document, lines 58-73.
DbKey(dataset_id, document_id) == dataset_id \o "_" \o document_id

\* An update that stores the document when the store does not hold it.
UpdateDocumentUpsert(db, c) ==
    [k \in DOMAIN db \cup {DbKey(c.dataset_id, c.document_id)} |->
        IF k = DbKey(c.dataset_id, c.document_id)
            THEN [title |-> c.title, metadata |-> c.metadata,
                  updated_at |-> "utcnow"]
            ELSE db[k]]

UpdateDocument(db, c) ==
    IF DbKey(c.dataset_id, c.document_id) \in DOMAIN db
        THEN [db EXCEPT ![DbKey(c.dataset_id, c.document_id)] =
                    [title |-> IF c.title # None THEN c.title ELSE @.title,
                     metadata |-> IF c.metadata # "none"
                                     THEN c.metadata ELSE @.metadata,
                     updated_at |-> "utcnow"]]
        ELSE db

\* update_document_metadata_endpoint, lines 152-163.
UpdateEndpointResult(db, c) ==
    IF DbKey(c.dataset_id, c.document_id) \in DOMAIN db
        THEN Return("Document")
        ELSE HTTPException(404, "Document not found")

----------------------------------------------------------------------------
(* The remote peers *)

\* The provider answers 404, or fails, for a document it does not hold, and
\* never answers 404 for one it holds.
ProviderStatuses(req) ==
    IF req.document = None THEN Statuses
    ELSE IF req.document \in remote THEN Statuses \ {404}
    ELSE {404, 500}

IsSuccessStatus(status) == status >= 200 /\ status <= 299

\* A successful DELETE removes the document at the provider.
RemoteAfter(req, status) ==
    IF req.method = "DELETE" /\ IsSuccessStatus(status)
        THEN remote \ {req.document}
        ELSE remote

Response(status, body) == [status |-> status, body |-> body]

----------------------------------------------------------------------------
(* Actions *)

Settings == [DIFY_DATASET_APIKEY : Keys, JINA_TOKEN : Keys]

Init ==
    /\ settings \in Settings
    /\ documents_db = [k \in {} |-> None]
    /\ remote \in SUBSET DocIds
    /\ pc = [p \in Slots |-> "idle"]
    /\ call = [p \in Slots |-> NoArgs]
    /\ sent = [p \in Slots |-> <<>>]
    /\ recv = [p \in Slots |-> <<>>]
    /\ flows = [p \in Slots |-> <<>>]
    /\ result = [p \in Slots |-> NoResult]
    /\ deleted = {}

\* A DifyDocument is constructed and one of its single-request methods is
\* called: everything up to the awaited HTTP call.
Start(p, c) ==
    /\ Free(p)
    /\ IF IsFailure(DifyInit(settings))
          THEN Finish(p, c, <<>>, <<>>, RouteExcept(c, DifyInit(settings)))
       ELSE IF IsFailure(ClientCheck(Inner(c)))
          THEN Finish(p, c, <<>>, <<>>, RouteExcept(c, ClientCheck(Inner(c))))
       ELSE /\ pc' = [pc EXCEPT ![p] = "await"]
            /\ call' = [call EXCEPT ![p] = c]
            /\ sent' = [sent EXCEPT ![p] = <<ClientRequest(Inner(c), settings)>>]
            /\ recv' = [recv EXCEPT ![p] = <<>>]
            /\ flows' = [flows EXCEPT ![p] = <<>>]
            /\ result' = [result EXCEPT ![p] = NoResult]
    /\ UNCHANGED <<settings, documents_db, remote, deleted>>

\* <<dataset_id given to the constructor, dataset_id given to the call>>
DatasetArgs ==
    {<<None, None>>, <<"", "">>, <<"ds1", None>>, <<"ds1", "">>,
     <<None, "ds2">>, <<"ds1", "ds2">>}

WithDataset(c, d) == [c EXCEPT !.ctor_dataset_id = d[1], !.dataset_id = d[2]]

create_from_text(p) ==
    \E d \in DatasetArgs, f \in DocumentForm \cup {None, "bogus"},
       m \in {None, "default", "custom"} :
        Start(p, WithDataset([NoArgs EXCEPT !.op = "create_from_text",
                                !.text = "body", !.doc_form = f,
                                !.import_mode = m], d))

create_from_file(p) ==
    \E path \in {None, "/data/a.pdf", "/data/gone.txt"},
       content \in {None, "bytes"}, name \in {None, "b.txt", "e.bin"},
       ctype \in {None, "text/csv"} :
        Start(p, WithDataset([NoArgs EXCEPT !.op = "create_from_file",
                                !.file_path = path, !.file_content = content,
                                !.file_name = name, !.content_type = ctype],
                             <<"ds1", None>>))

get_document(p) ==
    \E d \in DatasetArgs, doc \in DocIds :
        Start(p, WithDataset([NoArgs EXCEPT !.op = "get_document",
                                !.document_id = doc], d))

list_documents(p) ==
    \E d \in DatasetArgs, k \in {None, "kw"} :
        Start(p, WithDataset([NoArgs EXCEPT !.op = "list_documents",
                                !.keyword = k], d))

delete_document(p) ==
    \E d \in DatasetArgs, doc \in DocIds :
        Start(p, WithDataset([NoArgs EXCEPT !.op = "delete_document",
                                !.document_id = doc], d))

update_document_metadata(p) ==
    \E d \in DatasetArgs, doc \in DocIds, m \in {"dict", "json", "badjson", "none"} :
        Start(p, WithDataset([NoArgs EXCEPT !.op = "update_document_metadata",
                                !.document_id = doc, !.metadata = m], d))

delete_document_endpoint(p) ==
    \E doc \in DocIds :
        Start(p, [NoArgs EXCEPT !.op = "delete_document_endpoint",
                                !.dataset_id = "ds1", !.document_id = doc])

get_documents_from_knowledgebase(p) ==
    \E skip \in {0, 1, 100}, search \in {None, "kw"} :
        Start(p, [NoArgs EXCEPT !.op = "get_documents_from_knowledgebase",
                                !.dataset_id = "ds1", !.page = skip,
                                !.limit = 100, !.keyword = search])

\* The awaited response arrives and the method, then the route, finish.
Respond(p) ==
    /\ pc[p] = "await"
    /\ \E status \in ProviderStatuses(sent[p][1]), body \in BodyKinds :
        /\ Finish(p, call[p], sent[p], <<Response(status, body)>>,
                  RouteExcept(call[p],
                              ClientOutcome(Inner(call[p]).op, status, body)))
        /\ remote' = RemoteAfter(sent[p][1], status)
        /\ deleted' = deleted \cup (remote \ RemoteAfter(sent[p][1], status))
    /\ UNCHANGED <<settings, documents_db>>

\* create_from_web: the crawl is synchronous, so the whole method is one step.
create_from_web(p) ==
    /\ Free(p)
    /\ \E d \in DatasetArgs, u \in {"u"} :
        LET c == WithDataset([NoArgs EXCEPT !.op = "create_from_web", !.url = u], d)
        IN  IF IsFailure(DifyInit(settings))
                THEN Finish(p, c, <<>>, <<>>, DifyInit(settings))
            ELSE IF IsFailure(DatasetCheck(c))
                THEN Finish(p, c, <<>>, <<>>, DatasetCheck(c))
            ELSE IF IsFailure(JinaTokenCheck(settings))
                THEN Finish(p, c, <<>>, <<>>, JinaTokenCheck(settings))
            ELSE \E status \in Statuses, body \in {"text"} :
                    Finish(p, c, <<JinaRequest(c, settings)>>,
                           <<Response(status, body)>>,
                           CreateFromWebReturn(JinaOutcome(status, body)))
    /\ UNCHANGED <<settings, documents_db, remote, deleted>>

update_document_metadata_endpoint(p) ==
    /\ Free(p)
    /\ \E doc \in DocIds, m \in {"dict", "none"} :
        LET c == [NoArgs EXCEPT !.op = "update_document_metadata_endpoint",
                                !.dataset_id = "ds1", !.document_id = doc,
                                !.metadata = m]
        IN  /\ Finish(p, c, <<>>, <<>>, UpdateEndpointResult(documents_db, c))
            /\ documents_db' = UpdateDocument(documents_db, c)
    /\ UNCHANGED <<settings, remote, deleted>>

\* Requests are handled one at a time on slot 1.
Serial == {1}

Next ==
    \E p \in Serial :
        \/ create_document_in_kb(p)
        \/ delete_document_endpoint(p)
        \/ get_documents_from_knowledgebase(p)
        \/ update_document_metadata_endpoint(p)
        \/ create_from_web(p)
        \/ create_from_text(p)
        \/ create_from_file(p)
        \/ get_document(p)
        \/ list_documents(p)
        \/ delete_document(p)
        \/ update_document_metadata(p)
        \/ Respond(p)

Spec == Init /\ [][Next]_vars

\* The endpoints that touch the process-wide state, with two requests in
\* flight at once: a handler suspended at its await lets the other run.
NextConc ==
    \E p \in Slots :
        \/ delete_document_endpoint(p)
        \/ get_documents_from_knowledgebase(p)
        \/ update_document_metadata_endpoint(p)
        \/ Respond(p)

SpecConc == Init /\ [][NextConc]_vars

----------------------------------------------------------------------------
(* Vocabulary of the properties *)

Done(p) == pc[p] = "done"

\* A failure the caller can tell is its own input's fault: an HTTP 4xx.
CallerInputError(r) == IsFailure(r) /\ r.status >= 400 /\ r.status <= 499

Fetches(p) == {i \in DOMAIN sent[p] : sent[p][i].to = "jina"}
ProviderCalls(p) == {i \in DOMAIN sent[p] : sent[p][i].to = "dify"}
Creates(p) ==
    {i \in DOMAIN sent[p] :
        sent[p][i].endpoint \in {"create-by-text", "create-by-file"}}

IsImport(p) == call[p].op = "create_document_in_kb"
ImportKinds == {"web", "file", "qa"}

\* The import request lacks the field its kind requires.
MissingRequired(c) ==
    \/ c.import_type = "web" /\ c.url \in {None, ""}
    \/ c.import_type = "file" /\ c.file = None
    \/ c.import_type = "qa" /\ (Falsy(c.questions) \/ Falsy(c.answers))

\* The import request is one the spec accepts.
WellFormed(c) ==
    /\ c.import_type \in ImportKinds
    /\ ~MissingRequired(c)
    /\ c.import_type = "qa" =>
        /\ IsList(c.questions) /\ IsList(c.answers)
        /\ Len(c.questions.items) = Len(c.answers.items)
        /\ Len(c.questions.items) > 0
        /\ c.metadata = "json"

----------------------------------------------------------------------------
(* C1 *)

\* C1: a QA import whose questions and answers lists differ in length ends
\* in a validation error (a caller-input failure, not a server failure) and
\* no outbound call was made.
C1_MismatchedLengthsRejected ==
    \A p \in Slots :
        (/\ Done(p) /\ IsImport(p) /\ call[p].import_type = "qa"
         /\ IsList(call[p].questions) /\ IsList(call[p].answers)
         /\ Len(call[p].questions.items) # Len(call[p].answers.items))
        => CallerInputError(result[p]) /\ sent[p] = <<>>

----------------------------------------------------------------------------
(* C2 *)

\* The invocation got as far as the fetch, and the fetch failed: the crawler
\* token is missing, or the proxy answered with a status that is not 200.
FetchFailed(p) ==
    /\ Done(p) /\ call[p].op = "create_from_web"
    /\ settings.DIFY_DATASET_APIKEY # "" /\ ResolveDataset(call[p]) \notin {None, ""}
    /\ \/ settings.JINA_TOKEN = ""
       \/ recv[p] # <<>> /\ recv[p][1].status # 200

\* C2: a web import whose fetch fails ends in the fetch's own failure and
\* never issues the provider's create call.
C2_FetchFailureGatesCreate ==
    \A p \in Slots :
        FetchFailed(p) =>
            /\ result[p].tag = "raise" /\ result[p].exc = "ValueError"
            /\ settings.JINA_TOKEN = "" =>
                /\ result[p].detail = "JINA_TOKEN not configured in environment variables"
                /\ sent[p] = <<>>
            /\ settings.JINA_TOKEN # "" =>
                /\ result[p].detail = "Failed to crawl URL"
                /\ result[p].status = recv[p][1].status
            /\ ProviderCalls(p) = {}

C2_Witness ==
    \E p \in Slots :
        /\ FetchFailed(p) /\ recv[p] # <<>> /\ recv[p][1].status = 500
        /\ Fetches(p) = {1} /\ result[p].exc = "ValueError"

----------------------------------------------------------------------------
(* C3 *)

\* C3: an import runs exactly the one flow its kind names; a kind outside
\* web, file, qa fails as a caller-input error and runs no flow.
C3_ExactlyOneFlowByKind ==
    \A p \in Slots :
        Done(p) /\ IsImport(p) =>
            /\ WellFormed(call[p]) => flows[p] = <<call[p].import_type>>
            /\ call[p].import_type \notin ImportKinds =>
                CallerInputError(result[p]) /\ flows[p] = <<>>

----------------------------------------------------------------------------
(* C4 *)

\* The invocation is an import that got past validation and the fetch: it
\* returned, or it failed on the provider's answer.
ImportWentThrough(p) ==
    /\ Done(p)
    /\ call[p].op \in
        {"create_document_in_kb", "create_from_web", "create_from_text",
         "create_from_file"}
    /\ ~IsFailure(result[p]) \/ result[p].exc = "HTTPStatusError"

\* C4: an import that passes validation issues at most one fetch (web only)
\* and exactly one create call, and no invocation sends more than two
\* requests.
C4_OneFetchOneCreate ==
    \A p \in Slots :
        /\ Len(sent[p]) <= 2
        /\ ImportWentThrough(p) =>
            /\ Cardinality(Creates(p)) = 1
            /\ Cardinality(Fetches(p)) <= 1
            /\ Fetches(p) # {} => call[p].op = "create_from_web"

----------------------------------------------------------------------------
(* C5 *)

\* C5: an import that lacks the field its kind requires fails as a
\* validation failure (caller-input error) with no outbound call made.
C5_MissingFieldIsValidationError ==
    \A p \in Slots :
        Done(p) /\ IsImport(p) /\ MissingRequired(call[p]) =>
            CallerInputError(result[p]) /\ sent[p] = <<>>

----------------------------------------------------------------------------
(* C6 *)

\* The operations that construct a DifyDocument, and so need the API key.
NeedsApiKey(op) ==
    op \in ClientOps
        \cup {"delete_document_endpoint", "get_documents_from_knowledgebase"}

\* C6: with the API key absent, an operation that needs it fails before any
\* request goes out; with the crawler token absent, the web fetch fails
\* before any request goes out; no request carries an empty bearer credential.
C6_NoEmptyCredential ==
    \A p \in Slots :
        /\ \A i \in DOMAIN sent[p] : sent[p][i].auth # ""
        /\ (pc[p] # "idle" /\ NeedsApiKey(call[p].op)
                /\ settings.DIFY_DATASET_APIKEY = "")
            => /\ Done(p) /\ IsFailure(result[p]) /\ sent[p] = <<>>
               /\ result[p].detail = "Dify API key not configured"
        /\ (pc[p] # "idle" /\ call[p].op = "create_from_web"
                /\ settings.JINA_TOKEN = "")
            => /\ Done(p) /\ IsFailure(result[p]) /\ sent[p] = <<>>
               /\ (settings.DIFY_DATASET_APIKEY # ""
                        /\ ResolveDataset(call[p]) \notin {None, ""})
                    => result[p].detail
                        = "JINA_TOKEN not configured in environment variables"

C6_Witness ==
    \E p \in Slots :
        /\ Done(p) /\ call[p].op = "delete_document"
        /\ ResolveDataset(call[p]) \notin {None, ""}
        /\ settings.DIFY_DATASET_APIKEY = ""
        /\ result[p] = ValueError("Dify API key not configured")

----------------------------------------------------------------------------
(* C7 *)

IsDelete(p) == call[p].op \in {"delete_document", "delete_document_endpoint"}

\* C7: delete_document returns true only after a success status; after any
\* non-success status it fails, and it never returns false.
C7_DeleteTrueOnlyOnSuccess ==
    \A p \in Slots :
        Done(p) /\ IsDelete(p) =>
            /\ ~IsFailure(result[p]) =>
                /\ recv[p] # <<>> /\ IsSuccessStatus(recv[p][1].status)
                /\ result[p].detail \in {"True", "success"}
            /\ (recv[p] # <<>> /\ ~IsSuccessStatus(recv[p][1].status))
                => IsFailure(result[p])
            /\ result[p].detail # "False"

C7_Witness ==
    \E p \in Slots :
        /\ Done(p) /\ call[p].op = "delete_document"
        /\ recv[p] # <<>> /\ recv[p][1].status = 500
        /\ result[p].exc = "HTTPStatusError"

----------------------------------------------------------------------------
(* C8 *)

\* C8: when the provider reports 404 for a delete, update or get, the
\* operation surfaces NotFound (a 404, not a 500), on a first delete and on
\* every repeated delete of an id already deleted.
C8_NotFoundSurfacesAs404 ==
    \A p \in Slots :
        (/\ Done(p)
         /\ call[p].op \in
              {"delete_document_endpoint", "delete_document", "get_document",
               "update_document_metadata"}
         /\ recv[p] # <<>> /\ recv[p][1].status = 404)
        => IsFailure(result[p]) /\ result[p].status = 404

----------------------------------------------------------------------------
(* C9 *)

\* The invocation received an answer from the provider.
Answered(p) ==
    Done(p) /\ recv[p] # <<>> /\ sent[p][1].to = "dify"

\* C9: for every client operation a status outside 200..299 yields an error
\* carrying that status and the body's message (else the raw body), a 2xx
\* status is a success, and the route's caller sees the same status.
C9_UniformErrorMapping ==
    \A p \in Slots :
        Answered(p) =>
            /\ ~IsSuccessStatus(recv[p][1].status) =>
                /\ IsFailure(result[p])
                /\ result[p].status = recv[p][1].status
                /\ result[p].detail =
                    (IF recv[p][1].body = "json_message"
                        THEN Message(recv[p][1].body)
                        ELSE Text(recv[p][1].body))
            /\ (IsSuccessStatus(recv[p][1].status) /\ recv[p][1].body = "valid")
                => ~IsFailure(result[p])

----------------------------------------------------------------------------
(* C10 *)

CreateByText(p) ==
    {i \in DOMAIN sent[p] : sent[p][i].endpoint = "create-by-text"}

\* The optional fields the caller of create_from_text gave a value.
GivenByCaller(c) ==
    IF c.doc_form \in {None, ""} THEN {} ELSE {"doc_form"}

\* C10 as stated: the payload holds an optional field's key exactly when the
\* caller gave that field a value, and holds no null.
C10_OptionalKeyIffCallerGave ==
    \A p \in Slots : \A i \in CreateByText(p) :
        /\ DOMAIN sent[p][i].json \cap OptionalConfigFields
            = GivenByCaller(call[p])
        /\ \A k \in DOMAIN sent[p][i].json : sent[p][i].json[k] # None

\* C10 amended: the payload holds an optional field's key exactly when the
\* config create_from_text built has a value for it: doc_form always (the
\* caller's value, or text_model when the caller gave none), the other four
\* never; and it holds no null.
C10_PayloadOmitsAbsentFields ==
    \A p \in Slots : \A i \in CreateByText(p) :
        /\ DOMAIN sent[p][i].json \cap OptionalConfigFields = {"doc_form"}
        /\ sent[p][i].json["doc_form"] =
            (IF call[p].doc_form \in {None, ""}
                THEN "text_model" ELSE call[p].doc_form)
        /\ \A k \in DOMAIN sent[p][i].json : sent[p][i].json[k] # None
        /\ DOMAIN sent[p][i].json =
            {"name", "text", "indexing_technique", "process_rule", "doc_form"}

C10_Witness ==
    \E p \in Slots :
        /\ CreateByText(p) # {}
        /\ call[p].doc_form = None
        /\ "doc_language" \notin DOMAIN sent[p][1].json
        /\ sent[p][1].json["doc_form"] = "text_model"

----------------------------------------------------------------------------
(* C11 *)

IsListRoute(p) == call[p].op = "get_documents_from_knowledgebase"

\* The page that holds the results after the first `skip`, `limit` to a
\* page, counting pages from 1.
PageOfSkip(skip, limit) == (skip \div limit) + 1

\* C11: the list route asks the provider for the 1-indexed page that holds
\* the block starting at skip (skip 0 -> page 1, skip 100 with limit 100 ->
\* page 2), with the caller's limit, and never for a page below 1.
C11_SkipMapsToPage ==
    \A p \in Slots : \A i \in DOMAIN sent[p] :
        IsListRoute(p) =>
            /\ sent[p][i].page >= 1
            /\ sent[p][i].page = PageOfSkip(call[p].page, call[p].limit)
            /\ sent[p][i].limit = call[p].limit

----------------------------------------------------------------------------
(* C12 *)

\* C12: the facade keeps no local state (the in-process store stays as it
\* was at start-up) and every update_metadata call sends a PATCH for its
\* (dataset_id, document_id) to the provider.
C12_FacadeForwardsToProvider ==
    /\ DOMAIN documents_db = {}
    /\ \A p \in Slots :
        (Done(p) /\ call[p].op = "update_document_metadata_endpoint") =>
            \E i \in DOMAIN sent[p] :
                /\ sent[p][i].to = "dify" /\ sent[p][i].method = "PATCH"
                /\ sent[p][i].dataset = call[p].dataset_id
                /\ sent[p][i].document = call[p].document_id

----------------------------------------------------------------------------
(* C13 *)

\* C13: every outbound request, the crawler fetch included, carries an
\* explicit timeout.
C13_EveryRequestHasTimeout ==
    \A p \in Slots : \A i \in DOMAIN sent[p] : sent[p][i].timeout > 0

----------------------------------------------------------------------------
(* C14 *)

\* The invocation completed a call to the provider that answered success.
BackedByProvider(p) ==
    \E i \in DOMAIN recv[p] :
        sent[p][i].to = "dify" /\ IsSuccessStatus(recv[p][i].status)

\* C14: an operation that does not fail returns a result obtained from a
\* completed provider call, never a pending (un-awaited) or empty value.
C14_ResultOrTypedFailure ==
    \A p \in Slots :
        Done(p) =>
            \/ IsFailure(result[p])
            \/ /\ result[p].tag = "return"
               /\ BackedByProvider(p)
               /\ result[p].detail # "coroutine create_from_text"

----------------------------------------------------------------------------
(* C15 *)

\* C15: when the caller supplies no content type, the file part of the
\* create-by-file request carries the type of the file name's extension
\* (octet-stream only for an unrecognized one), whether the file came as
\* raw bytes with a name or as a path.
C15_ContentTypeFromExtension ==
    \A p \in Slots : \A i \in DOMAIN sent[p] :
        (call[p].op = "create_from_file" /\ call[p].content_type = None) =>
            sent[p][i].content_type = InferContentType(sent[p][i].file_name)

----------------------------------------------------------------------------
(* C16 *)

IsCreateByText(r) == r.to = "dify" /\ r.endpoint = "create-by-text"

\* C16: when the fetch of a web import returns text T for a request titled
\* N, a create-by-text request follows the fetch, with name N, text T,
\* indexing_technique high_quality and the automatic process rule.
C16_WebFlowCreatesFromFetchedText ==
    \A p \in Slots :
        (/\ Done(p) /\ call[p].op = "create_from_web"
         /\ Len(recv[p]) >= 1 /\ recv[p][1].status = 200) =>
            \E i \in DOMAIN sent[p] :
                /\ i > 1
                /\ IsCreateByText(sent[p][i])
                /\ {"name", "text", "indexing_technique", "process_rule"}
                        \subseteq DOMAIN sent[p][i].json
                /\ sent[p][i].json["name"] = call[p].title
                /\ sent[p][i].json["text"] = Text(recv[p][1].body)
                /\ sent[p][i].json["indexing_technique"] = "high_quality"
                /\ sent[p][i].json["process_rule"] = "automatic"

----------------------------------------------------------------------------
(* C17 *)

IsQAImport(p) ==
    /\ call[p].op = "create_document_in_kb" /\ call[p].import_type = "qa"
    /\ IsList(call[p].questions) /\ IsList(call[p].answers)
    /\ Len(call[p].questions.items) = Len(call[p].answers.items)
    /\ Len(call[p].questions.items) >= 1

\* C17: a QA import of n >= 1 questions and n answers sends a create-by-text
\* request whose text is the n "Q/A" blocks in input order, separated by a
\* blank line, and whose doc_form is qa_model.
C17_QAFlowSendsPairedBlocks ==
    \A p \in Slots :
        (Done(p) /\ IsQAImport(p) /\ call[p].metadata = "json") =>
            \E i \in DOMAIN sent[p] :
                /\ IsCreateByText(sent[p][i])
                /\ {"text", "doc_form"} \subseteq DOMAIN sent[p][i].json
                /\ sent[p][i].json["text"] =
                        process_qa_document(call[p].questions.items,
                                            call[p].answers.items)
                /\ sent[p][i].json["doc_form"] = "qa_model"

----------------------------------------------------------------------------
(* C19 *)

NoDataset(c) == c.dataset_id \in {None, ""} /\ c.ctor_dataset_id \in {None, ""}

\* C19: a client operation addresses the dataset given to the call when
\* that is non-empty and the one given at construction otherwise; with
\* neither, it fails before any request goes out (for create_from_web
\* before the crawler fetch too), with "Dataset ID is required" once the
\* client could be constructed.
C19_DatasetPerCallThenConstructor ==
    \A p \in Slots :
        (pc[p] # "idle" /\ call[p].op \in ClientOps) =>
            /\ \A i \in DOMAIN sent[p] :
                sent[p][i].to = "dify" =>
                    /\ sent[p][i].dataset \notin {None, ""}
                    /\ sent[p][i].dataset =
                        IF call[p].dataset_id \notin {None, ""}
                            THEN call[p].dataset_id
                            ELSE call[p].ctor_dataset_id
            /\ NoDataset(call[p]) =>
                /\ Done(p) /\ IsFailure(result[p]) /\ sent[p] = <<>>
                /\ settings.DIFY_DATASET_APIKEY # "" =>
                        result[p] = ValueError("Dataset ID is required")

C19_Witness ==
    \E p \in Slots :
        /\ Done(p) /\ call[p].op = "create_from_web"
        /\ NoDataset(call[p])
        /\ settings.DIFY_DATASET_APIKEY # "" /\ settings.JINA_TOKEN # ""
        /\ result[p] = ValueError("Dataset ID is required")
        /\ sent[p] = <<>>

----------------------------------------------------------------------------
(* C18 *)

\* The requests and the outcome of invocation c when it is the only one the
\* process ever handles: the store is as the module created it.
AloneSent(c) ==
    IF c.op = "update_document_metadata_endpoint" THEN <<>>
    ELSE IF IsFailure(DifyInit(settings)) \/ IsFailure(ClientCheck(Inner(c)))
        THEN <<>>
    ELSE <<ClientRequest(Inner(c), settings)>>

AloneResult(c, resps) ==
    IF c.op = "update_document_metadata_endpoint"
        THEN UpdateEndpointResult([k \in {} |-> None], c)
    ELSE IF IsFailure(DifyInit(settings))
        THEN RouteExcept(c, DifyInit(settings))
    ELSE IF IsFailure(ClientCheck(Inner(c)))
        THEN RouteExcept(c, ClientCheck(Inner(c)))
    ELSE RouteExcept(c, ClientOutcome(Inner(c).op, resps[1].status,
                                      resps[1].body))

SlotState(p) == <<pc[p], call[p], sent[p], recv[p], flows[p], result[p]>>

\* Each step belongs to one invocation and writes no credential.
StepIsLocal ==
    /\ settings' = settings
    /\ \A p, q \in Slots :
        (p # q /\ SlotState(p)' # SlotState(p)) => SlotState(q)' = SlotState(q)

\* C18: with two invocations interleaved, each one's requests and outcome
\* are those it produces alone for the same provider responses; a step of
\* one invocation leaves the other untouched and the credentials and the
\* process-wide store are never written.
C18_ConcurrentInvocationsIndependent ==
    /\ [](/\ DOMAIN documents_db = {}
          /\ \A p \in Slots :
                pc[p] # "idle" =>
                    /\ sent[p] = AloneSent(call[p])
                    /\ Done(p) => result[p] = AloneResult(call[p], recv[p]))
    /\ [][StepIsLocal]_vars

\* Two requests are in flight at once.
C18_Witness ==
    /\ pc[1] = "await" /\ call[1].op = "delete_document_endpoint"
    /\ pc[2] = "await" /\ call[2].op = "get_documents_from_knowledgebase"
    /\ sent[1] # <<>> /\ sent[2] # <<>>

====
